---- MODULE Spec2Model ----
(***************************************************************************)
(* Model of hy3dpaint/convert_utils.py: the metallic/roughness channel     *)
(* packer (combine_metallic_roughness) and the GLB assembler               *)
(* (create_glb_with_pbr_materials).                                        *)
(*                                                                         *)
(* Images are records [mode, size, px]; px is the row-major sequence of    *)
(* pixels.  An "L" pixel is its 8-bit sample; an "RGB" pixel is the 24-bit *)
(* integer r*65536 + g*256 + b.  Byte strings (file contents, PNG buffers) *)
(* are records [fmt, img]: fmt "png" is the lossless encoding of img,      *)
(* fmt "text" is a byte string that is no image, fmt "" is b"".            *)
(***************************************************************************)
EXTENDS Integers, Sequences, FiniteSets, TLC

VARIABLES
    disk,            \* image files on disk: path -> bytes
    pk_args,         \* packer: arguments of the call (paths)
    pk_ret,          \* packer: what the call returned or raised
    textures_dict,   \* assembler: the caller's dict object, in insertion order
    caller_dict,     \* assembler: the dict exactly as the caller built it
    last,            \* assembler: arguments and outcome of the latest call
    disk_out,        \* assembler: content of the file "out.glb", <<>> if none
    repeated         \* assembler: the latest call repeated the previous one

vars == <<disk, pk_args, pk_ret, textures_dict, caller_dict, last, disk_out, repeated>>

(***************************************************************************)
(* Bounds and input alphabets.                                             *)
(***************************************************************************)
\* the packer is checked on every image of at most this many pixels
MaxPixels == 2

\* grayscale samples used for "L" inputs
GrayVals == {0, 64, 255}

\* colours used for "RGB" inputs (r*65536 + g*256 + b): red, and (0,64,255)
RGBVals == {255 * 65536, 64 * 256 + 255}

(***************************************************************************)
(* PIL images.                                                             *)
(***************************************************************************)
NoImage == [mode |-> "", size |-> <<0, 0>>, px |-> <<>>]

Width(img) == img.size[1]

Height(img) == img.size[2]

Red(p) == p \div 65536

Green(p) == (p \div 256) % 256

Blue(p) == p % 256

\* Pixel (x, y), 0-based, of an image
PixelAt(img, x, y) == img.px[y * Width(img) + x + 1]

\* Image.convert("L"): ITU-R 601-2 luma of an RGB pixel, identity on "L"
ConvertL(img) ==
    IF img.mode = "L" THEN img
    ELSE [mode |-> "L", size |-> img.size,
          px |-> [i \in 1..Len(img.px) |->
                    (Red(img.px[i]) * 19595 + Green(img.px[i]) * 38470
                       + Blue(img.px[i]) * 7471 + 32768) \div 65536]]

\* Image.resize(size): an image of exactly the requested size.  The samples
\* are a deterministic function of the source and the size; they are taken
\* here at the nearest source pixel.
Resize(img, size) ==
    [mode |-> img.mode, size |-> size,
     px |-> [i \in 1..(size[1] * size[2]) |->
               LET x == (i - 1) % size[1]
                   y == (i - 1) \div size[1]
                   sx == ((2 * x + 1) * Width(img)) \div (2 * size[1])
                   sy == ((2 * y + 1) * Height(img)) \div (2 * size[2])
               IN PixelAt(img, sx, sy)]]

(***************************************************************************)
(* Byte strings and image sources.                                         *)
(***************************************************************************)
EmptyBytes == [fmt |-> "", img |-> NoImage]

TextBytes == [fmt |-> "text", img |-> NoImage]

\* img.save(buffer, format="PNG") / the content of a .png file
PngBytes(img) == [fmt |-> "png", img |-> img]

\* An image source as the caller passes it: a str (s), a bytes object (b),
\* a decoded PIL image (b.img) or None.
StrSrc(s) == [t |-> "str", s |-> s, b |-> EmptyBytes]

BytesSrc(b) == [t |-> "bytes", s |-> "", b |-> b]

ImageSrc(img) == [t |-> "image", s |-> "", b |-> [fmt |-> "decoded", img |-> img]]

NoneSrc == [t |-> "none", s |-> "", b |-> EmptyBytes]

\* Python truthiness of a source (line 116 "and tex_path", line 46)
Truthy(src) ==
    CASE src.t = "str" -> src.s # ""
      [] src.t = "bytes" -> src.b # EmptyBytes
      [] src.t = "image" -> TRUE
      [] OTHER -> FALSE

\* Image.open(source) with the files of `files`: a str names a file, which
\* must exist and hold an image; a bytes object is taken as a file NAME
\* (PNG data holds NUL bytes, so it names no file); any other object has no
\* read() and raises.
ImageOpen(src, files) ==
    IF src.t = "str" /\ src.s \in DOMAIN files /\ files[src.s].fmt = "png"
    THEN [ok |-> TRUE, img |-> files[src.s].img]
    ELSE [ok |-> FALSE, img |-> NoImage]

(***************************************************************************)
(* combine_metallic_roughness                                              *)
(***************************************************************************)
\* CombineArrays with the two channels exchanged (metallic in G, roughness in B)
CombineArraysSwapped(metallic_opened, roughness_opened) ==
    LET metallic_img == ConvertL(metallic_opened)
        roughness_0 == ConvertL(roughness_opened)
        roughness_img == IF metallic_img.size # roughness_0.size
                         THEN Resize(roughness_0, metallic_img.size)
                         ELSE roughness_0
        width == Width(metallic_img)
        height == Height(metallic_img)
    IN [mode |-> "RGB", size |-> <<width, height>>,
        px |-> [i \in 1..(width * height) |->
                  255 * 65536 + metallic_img.px[i] * 256 + roughness_img.px[i]]]

\* CombineArrays resizing the metallic image to the roughness size instead
CombineArraysRoughnessSize(metallic_opened, roughness_opened) ==
    LET metallic_0 == ConvertL(metallic_opened)
        roughness_img == ConvertL(roughness_opened)
        metallic_img == IF metallic_0.size # roughness_img.size
                        THEN Resize(metallic_0, roughness_img.size)
                        ELSE metallic_0
        width == Width(roughness_img)
        height == Height(roughness_img)
    IN [mode |-> "RGB", size |-> <<width, height>>,
        px |-> [i \in 1..(width * height) |->
                  255 * 65536 + roughness_img.px[i] * 256 + metallic_img.px[i]]]

\* lines 26-44, on the two decoded images: the combined RGB image
CombineArrays(metallic_opened, roughness_opened) ==
    LET metallic_img == ConvertL(metallic_opened)
        roughness_0 == ConvertL(roughness_opened)
        roughness_img == IF metallic_img.size # roughness_0.size
                         THEN Resize(roughness_0, metallic_img.size)
                         ELSE roughness_0
        width == Width(metallic_img)
        height == Height(metallic_img)
    IN [mode |-> "RGB", size |-> <<width, height>>,
        px |-> [i \in 1..(width * height) |->
                  255 * 65536 + roughness_img.px[i] * 256 + metallic_img.px[i]]]

\* lines 22-44: [ok, img]; ok is FALSE when Image.open raised
CombineImage(metallic_path, roughness_path, files) ==
    LET m == ImageOpen(metallic_path, files)
        r == ImageOpen(roughness_path, files)
    IN IF m.ok /\ r.ok
       THEN [ok |-> TRUE, img |-> CombineArrays(m.img, r.img)]
       ELSE [ok |-> FALSE, img |-> NoImage]

\* lines 9-49, the whole call: what it returns and what it leaves on disk.
\* output_path "" stands for None.
CombineCall(metallic_path, roughness_path, output_path, files) ==
    LET c == CombineImage(metallic_path, roughness_path, files)
    IN IF ~c.ok
       THEN [ret |-> [kind |-> "raised", img |-> NoImage, path |-> ""],
             files |-> files]
       ELSE IF output_path # ""
       THEN [ret |-> [kind |-> "path", img |-> NoImage, path |-> output_path],
             files |-> [p \in DOMAIN files \cup {output_path} |->
                          IF p = output_path THEN PngBytes(c.img) ELSE files[p]]]
       ELSE [ret |-> [kind |-> "image", img |-> c.img, path |-> ""],
             files |-> files]

(***************************************************************************)
(* The caller's dict: a sequence of [k, v] entries in insertion order.     *)
(***************************************************************************)
DictKeys(d) == {d[i].k : i \in 1..Len(d)}

HasKey(d, key) == key \in DictKeys(d)

GetItem(d, key) == (CHOOSE i \in 1..Len(d) : d[i].k = key)

Get(d, key) == d[GetItem(d, key)].v

\* d[key] = value: in place when the key exists, appended otherwise
SetItem(d, key, value) ==
    IF HasKey(d, key)
    THEN [d EXCEPT ![GetItem(d, key)] = [k |-> key, v |-> value]]
    ELSE Append(d, [k |-> key, v |-> value])

(***************************************************************************)
(* create_glb_with_pbr_materials                                           *)
(***************************************************************************)
\* lines 64-71: the meshes of the GLB that trimesh exports for an OBJ file,
\* each mesh the sequence of its primitives' material references (<<>> is
\* None, <<i>> is index i).  "mesh.obj" holds one object without material,
\* "scene.obj" two objects with a material each; any other path is no file.
LoadMeshes(obj_path) ==
    CASE obj_path = "mesh.obj" -> [ok |-> TRUE, meshes |-> << << <<>> >> >>]
      [] obj_path = "scene.obj" -> [ok |-> TRUE, meshes |-> << << <<0>> >>, << <<1>> >> >>]
      [] OTHER -> [ok |-> FALSE, meshes |-> <<>>]

NoUri == [prefix |-> "", encoded |-> EmptyBytes]

\* image_to_data_uri without the type check: any object's bytes are encoded
image_to_data_uri_any(image_source, files) ==
    IF image_source.t = "str"
    THEN IF image_source.s \in DOMAIN files
         THEN [err |-> "", uri |-> [prefix |-> "data:image/png;base64,",
                                    encoded |-> files[image_source.s]]]
         ELSE [err |-> "FileNotFoundError", uri |-> NoUri]
    ELSE [err |-> "", uri |-> [prefix |-> "data:image/png;base64,",
                               encoded |-> image_source.b]]

\* lines 74-85: [err, uri]; err is "" when a URI is returned.  base64 is
\* injective, so the payload is represented by the bytes it encodes.
image_to_data_uri(image_source, files) ==
    IF image_source.t = "str"
    THEN IF image_source.s \in DOMAIN files
         THEN [err |-> "", uri |-> [prefix |-> "data:image/png;base64,",
                                    encoded |-> files[image_source.s]]]
         ELSE [err |-> "FileNotFoundError", uri |-> NoUri]
    ELSE IF image_source.t = "bytes"
    THEN [err |-> "", uri |-> [prefix |-> "data:image/png;base64,",
                               encoded |-> image_source.b]]
    ELSE [err |-> "ValueError: Unsupported image source type", uri |-> NoUri]

texture_mapping == {"albedo", "metallicRoughness", "normal", "ao"}

\* lines 118-124: the URI of one dict entry, "" (NoUri) when there is none
EntryUri(tex_type, tex_path, mr_image_bytes, files) ==
    IF tex_type = "metallicRoughness" /\ tex_path = StrSrc("IN_MEMORY")
    THEN IF mr_image_bytes # EmptyBytes
         THEN image_to_data_uri(BytesSrc(mr_image_bytes), files)
         ELSE [err |-> "", uri |-> NoUri]
    ELSE image_to_data_uri(tex_path, files)

\* line 116: the entries the loop body runs for
LoopTakes(tex_type, tex_path) == tex_type \in texture_mapping /\ Truthy(tex_path)

\* AddTexture with the texture's source taken after, not before, the append
AddTextureOffByOne(acc, tex_type, uri) ==
    LET images == Append(acc.images, uri)
        textures == Append(acc.textures, [source |-> Len(images)])
    IN [acc EXCEPT !.images = images, !.textures = textures,
                   !.tex_type_to_index =
                       [t \in DOMAIN acc.tex_type_to_index \cup {tex_type} |->
                          IF t = tex_type THEN Len(textures) - 1
                          ELSE acc.tex_type_to_index[t]]]

\* lines 126-131: register one image/texture pair
AddTexture(acc, tex_type, uri) ==
    LET images == Append(acc.images, uri)
        textures == Append(acc.textures, [source |-> Len(images) - 1])
    IN [acc EXCEPT !.images = images, !.textures = textures,
                   !.tex_type_to_index =
                       [t \in DOMAIN acc.tex_type_to_index \cup {tex_type} |->
                          IF t = tex_type THEN Len(textures) - 1
                          ELSE acc.tex_type_to_index[t]]]

\* lines 115-131: the loop over textures_dict.items(), from entry i on
RECURSIVE AddImages(_, _, _, _, _)
AddImages(d, i, mr_image_bytes, files, acc) ==
    IF i > Len(d) \/ acc.err # "" THEN acc
    ELSE IF ~LoopTakes(d[i].k, d[i].v)
    THEN AddImages(d, i + 1, mr_image_bytes, files, acc)
    ELSE LET u == EntryUri(d[i].k, d[i].v, mr_image_bytes, files)
         IN IF u.err # "" THEN [acc EXCEPT !.err = u.err]
            ELSE IF u.uri # NoUri
            THEN AddImages(d, i + 1, mr_image_bytes, files, AddTexture(acc, d[i].k, u.uri))
            ELSE AddImages(d, i + 1, mr_image_bytes, files, acc)

\* <<index>> when the texture type was registered, <<>> (unset) otherwise
TextureInfo(tex_type_to_index, tex_type) ==
    IF tex_type \in DOMAIN tex_type_to_index
    THEN <<tex_type_to_index[tex_type]>> ELSE <<>>

\* BuildMaterial with the normal and occlusion maps wired crosswise
BuildMaterialCrossed(tex_type_to_index) ==
    [name |-> "PBR_Material",
     baseColorFactor |-> <<1, 1, 1, 1>>,
     metallicFactor |-> 1,
     roughnessFactor |-> 1,
     baseColorTexture |-> TextureInfo(tex_type_to_index, "albedo"),
     metallicRoughnessTexture |-> TextureInfo(tex_type_to_index, "metallicRoughness"),
     normalTexture |-> TextureInfo(tex_type_to_index, "ao"),
     occlusionTexture |-> TextureInfo(tex_type_to_index, "normal")]

\* lines 133-153
BuildMaterial(tex_type_to_index) ==
    [name |-> "PBR_Material",
     baseColorFactor |-> <<1, 1, 1, 1>>,
     metallicFactor |-> 1,
     roughnessFactor |-> 1,
     baseColorTexture |-> TextureInfo(tex_type_to_index, "albedo"),
     metallicRoughnessTexture |-> TextureInfo(tex_type_to_index, "metallicRoughness"),
     normalTexture |-> TextureInfo(tex_type_to_index, "normal"),
     occlusionTexture |-> TextureInfo(tex_type_to_index, "ao")]

\* lines 160-163: the primitives of gltf.meshes[0] get material 0
BindMaterial(meshes) ==
    IF meshes # <<>>
    THEN [meshes EXCEPT ![1] = [p \in 1..Len(meshes[1]) |-> <<0>>]]
    ELSE meshes

NoGltf == [images |-> <<>>, textures |-> <<>>, materials |-> <<>>, meshes |-> <<>>]

\* MarkReady that forgets to put the marker in the dict
MarkReadySkipped(d) == d

\* MarkReady that also takes the two packed maps out of the dict
MarkReadyConsumesPair(d) ==
    SetItem(SelectSeq(d, LAMBDA e : e.k \notin {"metallic", "roughness"}),
            "metallicRoughness", StrSrc("IN_MEMORY"))

\* line 99
MarkReady(d) == SetItem(d, "metallicRoughness", StrSrc("IN_MEMORY"))

\* line 166: gltf.save writes the file when its directory exists
CanSave(output_path) == output_path = "out.glb"

\* line 89
BothPresent(d) == HasKey(d, "metallic") /\ HasKey(d, "roughness")

\* Convert that writes the scene to output_path as soon as the mesh is
\* loaded, before the textures are processed
ConvertWritesFirst(obj_path, d, output_path, files) ==
    LET mesh == LoadMeshes(obj_path)
        both == BothPresent(d)
        mr == IF both THEN CombineImage(Get(d, "metallic"), Get(d, "roughness"), files)
              ELSE [ok |-> TRUE, img |-> NoImage]
        mr_image_bytes == IF both THEN PngBytes(mr.img) ELSE EmptyBytes
        d1 == IF both THEN MarkReady(d) ELSE d
        acc == AddImages(d1, 1, mr_image_bytes, files,
                         [images |-> <<>>, textures |-> <<>>,
                          tex_type_to_index |-> [t \in {} |-> 0], err |-> ""])
        early == [images |-> <<>>, textures |-> <<>>, materials |-> <<>>,
                  meshes |-> mesh.meshes]
        gltf == [images |-> acc.images, textures |-> acc.textures,
                 materials |-> <<BuildMaterial(acc.tex_type_to_index)>>,
                 meshes |-> BindMaterial(mesh.meshes)]
    IN IF ~mesh.ok
       THEN [result |-> "MeshLoadError", dict |-> d, gltf |-> NoGltf, saved |-> FALSE]
       ELSE IF ~CanSave(output_path)
       THEN [result |-> "IOError", dict |-> d, gltf |-> early, saved |-> FALSE]
       ELSE IF ~mr.ok
       THEN [result |-> "ImageOpenError", dict |-> d, gltf |-> early, saved |-> TRUE]
       ELSE IF acc.err # ""
       THEN [result |-> acc.err, dict |-> d1, gltf |-> early, saved |-> TRUE]
       ELSE [result |-> "ok", dict |-> d1, gltf |-> gltf, saved |-> TRUE]

\* lines 64-166, the whole call: [result, dict, gltf, saved].  result is
\* "ok" or the error raised; dict is the caller's dict as the call leaves
\* it; gltf is the scene handed to gltf.save; saved tells whether the file
\* at output_path was written.
Convert(obj_path, d, output_path, files) ==
    LET mesh == LoadMeshes(obj_path)
        both == BothPresent(d)
        mr == IF both THEN CombineImage(Get(d, "metallic"), Get(d, "roughness"), files)
              ELSE [ok |-> TRUE, img |-> NoImage]
        mr_image_bytes == IF both THEN PngBytes(mr.img) ELSE EmptyBytes
        d1 == IF both THEN MarkReady(d) ELSE d
        acc == AddImages(d1, 1, mr_image_bytes, files,
                         [images |-> <<>>, textures |-> <<>>,
                          tex_type_to_index |-> [t \in {} |-> 0], err |-> ""])
        gltf == [images |-> acc.images, textures |-> acc.textures,
                 materials |-> <<BuildMaterial(acc.tex_type_to_index)>>,
                 meshes |-> BindMaterial(mesh.meshes)]
    IN IF ~mesh.ok
       THEN [result |-> "MeshLoadError", dict |-> d, gltf |-> NoGltf, saved |-> FALSE]
       ELSE IF ~mr.ok
       THEN [result |-> "ImageOpenError", dict |-> d, gltf |-> NoGltf, saved |-> FALSE]
       ELSE IF acc.err # ""
       THEN [result |-> acc.err, dict |-> d1, gltf |-> NoGltf, saved |-> FALSE]
       ELSE IF ~CanSave(output_path)
       THEN [result |-> "IOError", dict |-> d1, gltf |-> gltf, saved |-> FALSE]
       ELSE [result |-> "ok", dict |-> d1, gltf |-> gltf, saved |-> TRUE]

(***************************************************************************)
(* Inputs of the assembler.                                                *)
(***************************************************************************)
Gray(w, h, px) == [mode |-> "L", size |-> <<w, h>>, px |-> px]

Colour(w, h, px) == [mode |-> "RGB", size |-> <<w, h>>, px |-> px]

\* The image files the texture paths of the model name; "missing.png" is
\* no file, "notes.txt" is a file that holds no image.
TextureFiles ==
    [p \in {"albedo.png", "normal.png", "ao.png", "metallic.png",
            "roughness.png", "mr.png", "notes.txt"} |->
       CASE p = "albedo.png" -> PngBytes(Colour(1, 1, <<255 * 65536>>))
         [] p = "normal.png" -> PngBytes(Colour(1, 1, <<64 * 256 + 255>>))
         [] p = "ao.png" -> PngBytes(Gray(1, 1, <<255>>))
         [] p = "metallic.png" -> PngBytes(Gray(2, 1, <<0, 255>>))
         [] p = "roughness.png" -> PngBytes(Gray(1, 1, <<64>>))
         [] p = "mr.png" -> PngBytes(Colour(1, 1, <<255 * 65536 + 64 * 256>>))
         [] OTHER -> TextBytes]

Keys == {"albedo", "metallic", "roughness", "normal", "ao", "metallicRoughness"}

Absent == [t |-> "absent", s |-> "", b |-> EmptyBytes]

\* The sources a caller may put under each key: a path, a byte buffer, a
\* decoded image, and the empty or failing values of that kind.
Sources(key) ==
    CASE key = "albedo" ->
           {StrSrc("albedo.png"), StrSrc("missing.png"), StrSrc(""),
            BytesSrc(TextureFiles["albedo.png"]),
            ImageSrc(TextureFiles["albedo.png"].img)}
      [] key = "normal" ->
           {StrSrc("normal.png"), NoneSrc,
            BytesSrc(TextureFiles["normal.png"]),
            ImageSrc(TextureFiles["normal.png"].img)}
      [] key = "ao" ->
           {StrSrc("ao.png"), BytesSrc(EmptyBytes),
            BytesSrc(TextureFiles["ao.png"]),
            ImageSrc(TextureFiles["ao.png"].img)}
      [] key = "metallic" ->
           {StrSrc("metallic.png"), StrSrc("notes.txt"),
            BytesSrc(TextureFiles["metallic.png"])}
      [] key = "roughness" ->
           {StrSrc("roughness.png"),
            ImageSrc(TextureFiles["roughness.png"].img)}
      [] OTHER ->
           {StrSrc("mr.png"), StrSrc("IN_MEMORY")}

\* The orders in which the caller writes the keys of the dict literal
KeyOrders ==
    {<<"albedo", "metallic", "roughness", "normal", "ao", "metallicRoughness">>,
     <<"metallicRoughness", "ao", "normal", "roughness", "metallic", "albedo">>}

\* The dict with the keys of `order` that `choice` does not leave out
RECURSIVE MakeDict(_, _, _)
MakeDict(order, choice, i) ==
    IF i > Len(order) THEN <<>>
    ELSE IF choice[order[i]] = Absent THEN MakeDict(order, choice, i + 1)
    ELSE <<[k |-> order[i], v |-> choice[order[i]]]>> \o MakeDict(order, choice, i + 1)

ObjPaths == {"mesh.obj", "scene.obj", "missing.obj"}

OutputPaths == {"out.glb", "no_such_dir/out.glb"}

NoCall == [obj_path |-> "", output_path |-> "", result |-> "none", gltf |-> NoGltf]

(***************************************************************************)
(* The assembler as a state machine: a caller builds a texture dict and    *)
(* calls create_glb_with_pbr_materials with it, again and again.           *)
(***************************************************************************)
PackIdle ==
    /\ pk_args = [metallic |-> NoneSrc, roughness |-> NoneSrc, output_path |-> ""]
    /\ pk_ret = [kind |-> "none", img |-> NoImage, path |-> ""]

Init ==
    /\ disk = TextureFiles
    /\ PackIdle
    /\ \E order \in KeyOrders :
         \E a \in Sources("albedo") \cup {Absent},
            m \in Sources("metallic") \cup {Absent},
            r \in Sources("roughness") \cup {Absent},
            n \in Sources("normal") \cup {Absent},
            o \in Sources("ao") \cup {Absent},
            x \in Sources("metallicRoughness") \cup {Absent} :
           textures_dict = MakeDict(order, [albedo |-> a, metallic |-> m, roughness |-> r,
                                            normal |-> n, ao |-> o, metallicRoughness |-> x], 1)
    /\ caller_dict = textures_dict
    /\ last = NoCall
    /\ disk_out = <<>>
    /\ repeated = FALSE

Call(obj_path, output_path) ==
    \E run \in {Convert(obj_path, textures_dict, output_path, disk)} :
       /\ textures_dict' = run.dict
       /\ last' = [obj_path |-> obj_path, output_path |-> output_path,
                   result |-> run.result, gltf |-> run.gltf]
       /\ disk_out' = IF run.saved THEN <<run.gltf>> ELSE disk_out
       /\ repeated' = (last.result # "none" /\ last.obj_path = obj_path
                         /\ last.output_path = output_path)
       /\ UNCHANGED <<disk, caller_dict, pk_args, pk_ret>>

Next == \E obj_path \in ObjPaths, output_path \in OutputPaths : Call(obj_path, output_path)

Spec == Init /\ [][Next]_vars

(***************************************************************************)
(* The packer as a state machine: combine_metallic_roughness called on two *)
(* image files of any content within the bounds.                           *)
(***************************************************************************)
\* the (width, height) pairs of at most MaxPixels pixels
Sizes == {sz \in (1..MaxPixels) \X (1..MaxPixels) : sz[1] * sz[2] <= MaxPixels}

PackImages ==
    UNION {{Gray(sz[1], sz[2], px) : px \in [1..(sz[1] * sz[2]) -> GrayVals]}
             \cup {Colour(sz[1], sz[2], px) : px \in [1..(sz[1] * sz[2]) -> RGBVals]}
           : sz \in Sizes}

InitPack ==
    /\ \E m \in PackImages, r \in PackImages :
         disk = [p \in {"metallic.png", "roughness.png"} |->
                   IF p = "metallic.png" THEN PngBytes(m) ELSE PngBytes(r)]
    /\ \E rp \in {"roughness.png", "missing.png"}, op \in {"", "combined.png"} :
         pk_args = [metallic |-> StrSrc("metallic.png"), roughness |-> StrSrc(rp),
                    output_path |-> op]
    /\ pk_ret = [kind |-> "none", img |-> NoImage, path |-> ""]
    /\ textures_dict = <<>>
    /\ caller_dict = <<>>
    /\ last = NoCall
    /\ disk_out = <<>>
    /\ repeated = FALSE

Pack ==
    \E run \in {CombineCall(pk_args.metallic, pk_args.roughness, pk_args.output_path, disk)} :
       /\ pk_ret' = run.ret
       /\ disk' = run.files
       /\ UNCHANGED <<pk_args, textures_dict, caller_dict, last, disk_out, repeated>>

NextPack == Pack

SpecPack == InitPack /\ [][NextPack]_vars

(***************************************************************************)
(* Properties of the packer (checked under SpecPack).                      *)
(***************************************************************************)
MetallicInput == disk["metallic.png"].img

RoughnessInput == disk["roughness.png"].img

PackReturned == pk_ret.kind \in {"image", "path"}

\* the combined image: the one returned, or the one saved at output_path
Produced == IF pk_ret.kind = "image" THEN pk_ret.img ELSE disk[pk_ret.path].img

\* C1: for a metallic/roughness pair of equal dimensions the combined image
\* has, at every pixel, red = 255, green = the roughness grayscale sample
\* and blue = the metallic grayscale sample.
C1_ChannelsPacked ==
    (PackReturned /\ MetallicInput.size = RoughnessInput.size) =>
        /\ Len(Produced.px) = Width(MetallicInput) * Height(MetallicInput)
        /\ \A i \in 1..Len(Produced.px) :
             /\ Red(Produced.px[i]) = 255
             /\ Green(Produced.px[i]) = ConvertL(RoughnessInput).px[i]
             /\ Blue(Produced.px[i]) = ConvertL(MetallicInput).px[i]

\* an equal-sized pair, one of them colour, whose grayscale samples differ
\* at some pixel, has been combined and returned as an image
C1_Witness ==
    /\ pk_ret.kind = "image"
    /\ MetallicInput.size = RoughnessInput.size
    /\ Len(MetallicInput.px) = 2
    /\ RoughnessInput.mode = "RGB"
    /\ \E i \in 1..2 : ConvertL(RoughnessInput).px[i] # ConvertL(MetallicInput).px[i]

\* C7: the combined image has exactly the metallic image's size, also when
\* the roughness image has another size.
C7_MetallicSize ==
    PackReturned =>
        /\ Produced.size = MetallicInput.size
        /\ Len(Produced.px) = Width(MetallicInput) * Height(MetallicInput)

\* a pair of different sizes has been combined
C7_Witness ==
    /\ PackReturned
    /\ MetallicInput.size = <<1, 2>>
    /\ RoughnessInput.size = <<2, 1>>

(***************************************************************************)
(* Properties of the assembler (checked under Spec).                       *)
(***************************************************************************)
Completed == last.result = "ok"

Material == last.gltf.materials[1]

\* the entry of the caller's dict under a key is there and is not empty
Supplied(key) == HasKey(caller_dict, key) /\ Truthy(Get(caller_dict, key))

UnsupportedType == "ValueError: Unsupported image source type"

\* C2: after a completed conversion every primitive of every mesh of the
\* output scene is bound to material 0.
C2_AllPrimitivesBound ==
    Completed =>
        \A m \in 1..Len(disk_out[1].meshes) :
            \A p \in 1..Len(disk_out[1].meshes[m]) : disk_out[1].meshes[m][p] = <<0>>

\* what the code does bind: the primitives of the first mesh
C2_FirstMeshBound ==
    Completed => \A p \in 1..Len(disk_out[1].meshes[1]) : disk_out[1].meshes[1][p] = <<0>>

\* a source that image_to_data_uri can read or take as it is
Encodable(v) == (v.t = "str" /\ v.s \in DOMAIN disk) \/ v.t = "bytes"

\* the steps before the write, for a call with obj_path on dict d
MeshFails(obj_path) == obj_path \notin {"mesh.obj", "scene.obj"}

PackFails(d) ==
    /\ HasKey(d, "metallic") /\ HasKey(d, "roughness")
    /\ \E k \in {"metallic", "roughness"} :
         ~(Get(d, k).t = "str" /\ Get(d, k).s \in DOMAIN disk /\ disk[Get(d, k).s].fmt = "png")

EncodeFails(d) ==
    \E i \in 1..Len(d) :
        /\ d[i].k \in {"albedo", "normal", "ao"}
             \/ (d[i].k = "metallicRoughness" /\ ~(HasKey(d, "metallic") /\ HasKey(d, "roughness"))
                   /\ d[i].v # StrSrc("IN_MEMORY"))
        /\ Truthy(d[i].v)
        /\ ~Encodable(d[i].v)

\* C3: the output file is written only by a call whose mesh loading,
\* packing and encoding all succeeded; when one of them fails the call
\* ends with that error and the file at output_path is as it was.
C3_WriteOnlyAfterSuccess ==
    [][LET failed == \/ MeshFails(last'.obj_path)
                     \/ PackFails(textures_dict)
                     \/ EncodeFails(textures_dict)
       IN /\ failed => (last'.result \notin {"ok", "none"} /\ disk_out' = disk_out)
          /\ last'.result # "ok" => disk_out' = disk_out
          /\ (~failed /\ last'.output_path = "out.glb") =>
                (last'.result = "ok" /\ disk_out' = <<last'.gltf>>)]_vars

\* a call failed after an earlier one had written the file, which is intact
C3_Witness ==
    /\ last.result \notin {"ok", "none"}
    /\ last.output_path = "out.glb"
    /\ disk_out # <<>>
    /\ Len(disk_out[1].images) = 4

\* a call failed on a texture and there is no output file
C3_WitnessTexture ==
    /\ last.result \in {"ImageOpenError", "FileNotFoundError", UnsupportedType}
    /\ disk_out = <<>>

DirectMR ==
    /\ Supplied("metallicRoughness")
    /\ Get(caller_dict, "metallicRoughness") # StrSrc("IN_MEMORY")

ExactlyOneOfPair == HasKey(caller_dict, "metallic") # HasKey(caller_dict, "roughness")

C5_SetIffPresent ==
    Completed =>
        /\ Material.baseColorTexture # <<>> <=> HasKey(caller_dict, "albedo")
        /\ Material.normalTexture # <<>> <=> HasKey(caller_dict, "normal")
        /\ Material.occlusionTexture # <<>> <=> HasKey(caller_dict, "ao")

\* C5 (amended): the references are set exactly for the slots present with
\* a non-empty source; the scalar factors are always set.
C5_SetIffSupplied ==
    Completed =>
        /\ Material.baseColorTexture # <<>> <=> Supplied("albedo")
        /\ Material.normalTexture # <<>> <=> Supplied("normal")
        /\ Material.occlusionTexture # <<>> <=> Supplied("ao")
        /\ Material.baseColorFactor = <<1, 1, 1, 1>>
        /\ Material.metallicFactor = 1
        /\ Material.roughnessFactor = 1

\* only albedo: a base-color texture and no other reference
C5_Witness ==
    /\ Completed
    /\ DictKeys(caller_dict) = {"albedo"}
    /\ Material.baseColorTexture = <<0>>
    /\ Material.normalTexture = <<>>
    /\ Material.occlusionTexture = <<>>
    /\ Material.metallicRoughnessTexture = <<>>

RejectedEntry ==
    \E k \in {"albedo", "normal", "ao"} :
        Supplied(k) /\ Get(caller_dict, k).t \notin {"str", "bytes"}

C6_WitnessRejected ==
    /\ last.result = UnsupportedType
    /\ HasKey(caller_dict, "albedo") /\ Get(caller_dict, "albedo").t = "image"

\* C8: the caller's texture set holds exactly what the caller put there.
C8_DictUntouched == textures_dict = caller_dict

\* C9: a call with the arguments of the call before it (same obj path, same
\* dict object, same output path) has the same outcome: same result, same
\* images in the same order, same texture references.
C9_Idempotent ==
    [][(last.result # "none" /\ last'.obj_path = last.obj_path
          /\ last'.output_path = last.output_path)
        => (last'.result = last.result /\ last'.gltf = last.gltf)]_vars

\* a completed call was repeated on a dict that the first call had changed
C9_Witness ==
    /\ repeated
    /\ Completed
    /\ textures_dict # caller_dict
    /\ Material.metallicRoughnessTexture # <<>>

\* the texture references the material sets
SetRefs ==
    {r \in {Material.baseColorTexture, Material.metallicRoughnessTexture,
            Material.normalTexture, Material.occlusionTexture} : r # <<>>}

NumSetSlots ==
    Cardinality({s \in {"baseColorTexture", "metallicRoughnessTexture",
                        "normalTexture", "occlusionTexture"} : Material[s] # <<>>})

\* C10: in every scene handed to gltf.save, images and textures have equal
\* length, at most 4; texture i has source i; every reference the material
\* sets is an index of the textures list, no two slots share one, and every
\* image belongs to a slot (an empty URI added none).
C10_IndicesWellFormed ==
    last.result \in {"ok", "IOError"} =>
        /\ Len(last.gltf.images) = Len(last.gltf.textures)
        /\ Len(last.gltf.images) \in 0..4
        /\ \A i \in 1..Len(last.gltf.textures) : last.gltf.textures[i].source = i - 1
        /\ \A r \in SetRefs : r[1] \in 0..(Len(last.gltf.textures) - 1)
        /\ Cardinality(SetRefs) = NumSetSlots
        /\ NumSetSlots = Len(last.gltf.images)
        /\ \A i \in 1..Len(last.gltf.images) : last.gltf.images[i] # NoUri

\* the IN_MEMORY marker without packed bytes added nothing; three images
C10_Witness ==
    /\ Completed
    /\ HasKey(caller_dict, "metallicRoughness")
    /\ Get(caller_dict, "metallicRoughness") = StrSrc("IN_MEMORY")
    /\ ~HasKey(caller_dict, "metallic")
    /\ Len(last.gltf.images) = 3
    /\ Material.metallicRoughnessTexture = <<>>

\* four images, the packed one among them
C10_WitnessFour ==
    /\ Completed
    /\ Len(last.gltf.images) = 4
    /\ textures_dict # caller_dict

====
